---- MODULE Spec2Model ----
(***************************************************************************)
(* agentoast: the notification store (crates/agentoast-shared/src/db.rs,   *)
(* schema.rs), the change-detection watcher (src-tauri/src/watcher.rs),    *)
(* the mute state (src-tauri/src/lib.rs), the tray menu (tray.rs) and the  *)
(* native toast queue (src-tauri/src/native_toast.rs), macOS build.        *)
(*                                                                         *)
(* The SQLite file is shared by short-lived producer processes (the CLI)   *)
(* and the long-running app. Every statement outside a transaction is one  *)
(* atomic commit; insert_notification is a transaction of two statements   *)
(* and a commit, modelled as three steps with the engine's single-writer   *)
(* lock. Readers only ever see the committed table `rows`.                 *)
(***************************************************************************)
EXTENDS Integers, Sequences, FiniteSets, TLC

VARIABLES
    \* ---- store (db.rs, schema.rs) ----
    rows,           \* committed content of table notifications (set of rows)
    seq,            \* sqlite_sequence value of the AUTOINCREMENT key
    now,            \* the engine's clock, in created_at units
    ptx,            \* per producer process: its open insert transaction
    \* ---- app (lib.rs, tray.rs) ----
    opened,         \* watcher::start has opened its connection
    started,        \* watcher::start has set the cursor and spawned the threads
    global_muted,   \* MuteState.global_muted
    muted_repos,    \* MuteState.muted_repos
    \* ---- watcher (watcher.rs) ----
    LAST_KNOWN_ID,  \* the shared cursor
    last_event,     \* file-watcher thread: a relevant event awaits its check
    wpc,            \* per watcher thread: position inside check_new_notifications
    last_id,        \* per watcher thread: local last_id
    new_notifications, \* per watcher thread: local query result
    mainq,          \* closures handed to run_on_main_thread, in order
    \* ---- toast queue (native_toast.rs) ----
    queue,          \* ToastState.queue
    current_index,  \* ToastState.current_index
    is_visible,     \* ToastState.is_visible
    persistent,     \* ToastState.persistent
    TOAST_TIMER,    \* slot TOAST_TIMER: "none", "live" (scheduled), "dead" (fired)
    FADE_TIMER,     \* slot FADE_TIMER:  "none", "live", "dead"
    timers,         \* scheduled auto-advance NSTimers neither fired nor invalidated
    fade_timers,    \* scheduled fade-completion NSTimers neither fired nor invalidated
    \* ---- hook processes (agentoast-cli) ----
    hooks,          \* per producer process: the hook invocation it is running
    nhooks,         \* hook invocations started so far
    \* ---- file-watcher thread's debounce loop (watcher.rs:61-116) ----
    clock,          \* time, in units of 100 ms
    rx,             \* events sent by the notify watcher, not yet received
    last_event_at,  \* local last_event: None, or the Instant of a relevant event
    fw_pc,          \* position in the loop: "top" (line 65) or "recv" (line 79)
    timeout_at,     \* when the recv_timeout under way gives up
    \* ---- in-process locks (lib.rs, native_toast.rs) ----
    held,           \* per Mutex: the command holding its guard, or NoHolder
    cmd,            \* the command under way on the command thread
    \* ---- history (not program state) ----
    burst_checks,   \* checks the debounce loop has run since the last relevant event
    nevents,        \* events sent by the notify watcher so far
    muted_handed,   \* uids of the rows a dispatch has found muted
    ninserts,       \* INSERT statements executed so far
    max_issued,     \* the greatest id insert_notification has returned so far
    handed,         \* uids of the rows handed to the policy pipeline so far
    historic,       \* the rows in the store when the watcher started
    last_op         \* what the step that led to this state did (OtherOp unless it
                    \* committed an insert, ran a check's query, dispatched a batch,
                    \* showed one or was the firing of an auto-advance timer)

store_vars == <<rows, seq, now, ptx>>
app_vars == <<opened, started, global_muted, muted_repos>>
watch_vars == <<LAST_KNOWN_ID, last_event, wpc, last_id, new_notifications, mainq>>
toast_vars == <<queue, current_index, is_visible, persistent, TOAST_TIMER, FADE_TIMER,
                timers, fade_timers>>
keep_vars == <<ninserts, max_issued, handed, historic>>
hist_vars == <<keep_vars, last_op>>
hook_vars == <<hooks, nhooks>>
deb_vars == <<clock, rx, last_event_at, fw_pc, timeout_at, burst_checks, nevents>>
lock_vars == <<held, cmd>>
side_vars == <<deb_vars, lock_vars, muted_handed>>
vars == <<store_vars, app_vars, watch_vars, toast_vars, hook_vars, side_vars, hist_vars>>

----------------------------------------------------------------------------
\* Bounds of the model.

\* INSERT statements executed in one run
MaxInserts == 3
\* INSERT statements executed in one run of the store-only specification
MaxInsertsStore == 4
\* INSERT statements executed in one run of the cursor specification
MaxInsertsCursor == 2
\* INSERT statements executed in one run of the policy specification
MaxInsertsPolicy == 2
\* INSERT statements executed in one run of the toast specification
MaxInsertsToast == 3
MaxInsertsClick == 2
MaxInsertsRace == 1
MaxInsertsRetry == 3
MaxInsertsTimers == 3
\* hook invocations in the specification of the hook processes
MaxHooks == 3
\* the latest time of the debounce specification, in units of 100 ms
MaxClock == 7
\* events sent by the notify watcher in the debounce specification
MaxEvents == 3
\* INSERT statements executed in one run of the lock specification
MaxInsertsLocks == 3

\* get_notifications' default LIMIT (lib.rs:126)
ListLimit == 100

Producers == {"cli1", "cli2"}
Threads == {"file-watcher", "polling"}
Panes == {"", "%1", "%2", "%3"}
Repos == {"repoA", "repoB"}
NoRow == [id |-> 0]
OtherOp == [op |-> "other"]
\* Option<Instant>::None, and a recv_timeout of an hour (watcher.rs:71, 76)
None == -1
Forever == 999
\* The Mutexes of the app: Mutex<MuteState>, Mutex<AppState>, TOAST_STATE
Locks == {"mute", "app", "toast"}
NoHolder == "none"
NoCmd == [name |-> "none", pc |-> "none", arg |-> 0]
\* A hook process that is not running: nothing printed, no exit status (-1).
IdleHook == [pc |-> "idle", agent |-> "", payload |-> "", home |-> TRUE, result |-> "none",
             out |-> <<>>, exit |-> -1, inserted |-> FALSE]
IdleTx == [stage |-> "idle", input |-> NoRow, del |-> {}, new |-> NoRow]

\* What a producer passes to insert_notification (the fields the core reads).
Input(pane, bundle, ff, repo) ==
    [tmux_pane |-> pane, terminal_bundle_id |-> bundle, force_focus |-> ff, repo |-> repo]

----------------------------------------------------------------------------
\* Sequences

RECURSIVE Reverse(_)
Reverse(s) == IF s = <<>> THEN <<>> ELSE Append(Reverse(Tail(s)), Head(s))

Range(s) == {s[i] : i \in 1..Len(s)}

Last(s) == s[Len(s)]

\* ORDER BY id ASC
RECURSIVE OrderByIdAsc(_)
OrderByIdAsc(S) ==
    IF S = {} THEN <<>>
    ELSE LET m == CHOOSE r \in S : \A o \in S : r.id <= o.id
         IN <<m>> \o OrderByIdAsc(S \ {m})

\* ORDER BY created_at DESC; rows of one created_at come in rowid order, the
\* order of the index idx_notifications_created_at
RECURSIVE OrderByCreatedAtDesc(_)
OrderByCreatedAtDesc(S) ==
    IF S = {} THEN <<>>
    ELSE LET m == CHOOSE r \in S : \A o \in S :
                      \/ r.created_at > o.created_at
                      \/ r.created_at = o.created_at /\ r.id <= o.id
         IN <<m>> \o OrderByCreatedAtDesc(S \ {m})

Take(s, n) == SubSeq(s, 1, IF n < Len(s) THEN n ELSE Len(s))

----------------------------------------------------------------------------
\* Store: queries (over a committed table T)

get_notifications(T, limit) == Take(OrderByCreatedAtDesc(T), limit)

get_unread_count(T) == Cardinality({r \in T : ~r.is_read})

get_max_id_zero(T) == 0

get_max_id(T) == IF T = {} THEN 0 ELSE CHOOSE m \in {r.id : r \in T} : \A r \in T : r.id <= m

get_notifications_after_id_ge(T, after_id) == OrderByIdAsc({r \in T : r.id >= after_id})

get_notifications_after_id(T, after_id) == OrderByIdAsc({r \in T : r.id > after_id})

\* The engine's write lock: held by a producer from its transaction's first
\* write statement to its commit (WAL mode: one writer, busy_timeout 5000).
Writer == {p \in Producers : ptx[p].stage # "idle"}
NoWriter == Writer = {}

----------------------------------------------------------------------------
\* Store: insert_notification, a transaction of DELETE, INSERT and COMMIT

\* The INSERT statement of the transaction of producer p.  muted_at_insert is
\* not a column: it records for the row what MuteState.global_muted was when
\* the statement ran, so that properties can tell insert time from dispatch time.
tx_insert(p, input, d) ==
        /\ now' = now + d
        /\ ptx' = [ptx EXCEPT ![p] =
              [stage |-> "inserted", input |-> input,
               del |-> IF ptx[p].stage = "deleted" THEN ptx[p].del ELSE {},
               new |-> [id |-> seq + 1, uid |-> ninserts + 1,
                        tmux_pane |-> input.tmux_pane,
                        terminal_bundle_id |-> input.terminal_bundle_id,
                        force_focus |-> input.force_focus,
                        repo |-> input.repo,
                        is_read |-> FALSE,
                        created_at |-> now + d,
                        muted_at_insert |-> global_muted]]]
        /\ ninserts' = ninserts + 1

\* db.rs:49-57, a non-empty tmux_pane: the transaction's first statement is the
\* DELETE, which takes the write lock; the deletion is not committed yet.
insert_delete_autocommit(p, input) ==
    /\ NoWriter
    /\ input.tmux_pane # ""
    /\ rows' = {r \in rows : r.tmux_pane # input.tmux_pane}
    /\ ptx' = [ptx EXCEPT ![p] = [stage |-> "deleted", input |-> input,
                                  del |-> {}, new |-> NoRow]]
    /\ UNCHANGED <<seq, now, app_vars, watch_vars, toast_vars, keep_vars, hook_vars, side_vars>>
    /\ last_op' = OtherOp

insert_delete_nothing(p, input) ==
    /\ NoWriter
    /\ input.tmux_pane # ""
    /\ ptx' = [ptx EXCEPT ![p] = [stage |-> "deleted", input |-> input,
                                  del |-> {}, new |-> NoRow]]
    /\ UNCHANGED <<rows, seq, now, app_vars, watch_vars, toast_vars, keep_vars, hook_vars, side_vars>>
    /\ last_op' = OtherOp

insert_delete(p, input) ==
    /\ NoWriter
    /\ input.tmux_pane # ""
    /\ ptx' = [ptx EXCEPT ![p] = [stage |-> "deleted", input |-> input,
                                  del |-> {r \in rows : r.tmux_pane = input.tmux_pane},
                                  new |-> NoRow]]
    /\ UNCHANGED <<rows, seq, now, app_vars, watch_vars, toast_vars, keep_vars, hook_vars, side_vars>>
    /\ last_op' = OtherOp

\* db.rs:59-65, after the DELETE
insert_insert(p, d) ==
    /\ ptx[p].stage = "deleted"
    /\ tx_insert(p, ptx[p].input, d)
    /\ UNCHANGED <<rows, seq, app_vars, watch_vars, toast_vars, max_issued, handed,
                   historic, hook_vars, side_vars>>
    /\ last_op' = OtherOp

insert_insert_only_replacing(p, input, d) ==
    /\ NoWriter
    /\ input.tmux_pane = ""
    /\ now' = now + d
    /\ ptx' = [ptx EXCEPT ![p] =
          [stage |-> "inserted", input |-> input,
           del |-> {r \in rows : r.tmux_pane = ""},
           new |-> [id |-> seq + 1, uid |-> ninserts + 1,
                    tmux_pane |-> input.tmux_pane,
                    terminal_bundle_id |-> input.terminal_bundle_id,
                    force_focus |-> input.force_focus,
                    repo |-> input.repo,
                    is_read |-> FALSE,
                    created_at |-> now + d,
                    muted_at_insert |-> global_muted]]]
    /\ ninserts' = ninserts + 1
    /\ UNCHANGED <<rows, seq, app_vars, watch_vars, toast_vars, max_issued, handed,
                   historic, hook_vars, side_vars>>
    /\ last_op' = OtherOp

\* db.rs:49-65, an empty tmux_pane: no DELETE, the INSERT takes the write lock
insert_insert_only(p, input, d) ==
    /\ NoWriter
    /\ input.tmux_pane = ""
    /\ tx_insert(p, input, d)
    /\ UNCHANGED <<rows, seq, app_vars, watch_vars, toast_vars, max_issued, handed,
                   historic, hook_vars, side_vars>>
    /\ last_op' = OtherOp

\* db.rs:65-67: commit; the deletion and the new row become visible together,
\* the file changes (one WAL write) and the id is returned.
insert_commit_keep_old(p) ==
    /\ ptx[p].stage = "inserted"
    /\ rows' = rows \cup {ptx[p].new}
    /\ seq' = ptx[p].new.id
    /\ ptx' = [ptx EXCEPT ![p] = IdleTx]
    /\ \E delivered \in BOOLEAN : last_event' = (last_event \/ (started /\ delivered))
    /\ max_issued' = IF ptx[p].new.id > max_issued THEN ptx[p].new.id ELSE max_issued
    /\ last_op' = [op |-> "commit", row |-> ptx[p].new, replaced |-> ptx[p].del]
    /\ UNCHANGED <<now, app_vars, LAST_KNOWN_ID, wpc, last_id, new_notifications, mainq,
                   toast_vars, ninserts, handed, historic, hook_vars, side_vars>>

commit_tx(p) ==
    /\ ptx[p].stage = "inserted"
    /\ rows' = (rows \ ptx[p].del) \cup {ptx[p].new}
    /\ seq' = ptx[p].new.id
    /\ ptx' = [ptx EXCEPT ![p] = IdleTx]
    /\ \E delivered \in BOOLEAN : last_event' = (last_event \/ (started /\ delivered))
    /\ max_issued' = IF ptx[p].new.id > max_issued THEN ptx[p].new.id ELSE max_issued
    /\ last_op' = [op |-> "commit", row |-> ptx[p].new, replaced |-> ptx[p].del]
    /\ UNCHANGED <<now, app_vars, LAST_KNOWN_ID, wpc, last_id, new_notifications, mainq,
                   toast_vars, ninserts, handed, historic>>

\* insert_notification's commit in a producer that is not a hook
insert_commit(p) == commit_tx(p) /\ UNCHANGED <<hook_vars, side_vars>>

----------------------------------------------------------------------------
\* Store: schema and deletes (each statement is its own commit)

\* A write to the store file reaches the file-watcher thread as a relevant
\* Create/Modify event (watcher.rs:79-103), unless the OS loses it.
fs_event == \E delivered \in BOOLEAN : last_event' = (last_event \/ (started /\ delivered))

\* schema.rs:3-29: DROP TABLE IF EXISTS + CREATE TABLE ... AUTOINCREMENT.
\* Dropping the table drops its sqlite_sequence entry: ids start again at 1.
initialize == rows' = {} /\ seq' = 0

\* db.rs:107-110
db_delete_notification(T, id) == {r \in T : r.id # id}

\* db.rs:112-117
db_delete_notifications_by_pane(T, tmux_pane) == {r \in T : r.tmux_pane # tmux_pane}

\* db.rs:119-139
db_delete_notifications_by_panes(T, panes) == {r \in T : r.tmux_pane \notin panes}

\* db.rs:141-144
db_delete_all_notifications(T) == {}

\* lib.rs:136-150, command delete_notification
delete_notification(id) ==
    /\ NoWriter
    /\ rows' = db_delete_notification(rows, id)
    /\ fs_event
    /\ UNCHANGED <<seq, now, ptx, app_vars, LAST_KNOWN_ID, wpc, last_id, new_notifications,
                   mainq, toast_vars, keep_vars, hook_vars, side_vars>>
    /\ last_op' = OtherOp

\* lib.rs:152-166, command delete_notifications_by_pane
delete_notifications_by_pane(tmux_pane) ==
    /\ NoWriter
    /\ rows' = db_delete_notifications_by_pane(rows, tmux_pane)
    /\ fs_event
    /\ UNCHANGED <<seq, now, ptx, app_vars, LAST_KNOWN_ID, wpc, last_id, new_notifications,
                   mainq, toast_vars, keep_vars, hook_vars, side_vars>>
    /\ last_op' = OtherOp

\* lib.rs:168-182, command delete_notifications_by_panes
delete_notifications_by_panes(pane_ids) ==
    /\ NoWriter
    /\ rows' = db_delete_notifications_by_panes(rows, pane_ids)
    /\ fs_event
    /\ UNCHANGED <<seq, now, ptx, app_vars, LAST_KNOWN_ID, wpc, last_id, new_notifications,
                   mainq, toast_vars, keep_vars, hook_vars, side_vars>>
    /\ last_op' = OtherOp

\* lib.rs:245-256, command delete_all_notifications
delete_all_notifications ==
    /\ NoWriter
    /\ rows' = db_delete_all_notifications(rows)
    /\ fs_event
    /\ UNCHANGED <<seq, now, ptx, app_vars, LAST_KNOWN_ID, wpc, last_id, new_notifications,
                   mainq, toast_vars, keep_vars, hook_vars, side_vars>>
    /\ last_op' = OtherOp

\* tray.rs:85-93, menu item "Clear All": db::open (which runs
\* schema::initialize) and then delete_all_notifications
clear_all ==
    /\ NoWriter
    /\ initialize
    /\ fs_event
    /\ UNCHANGED <<now, ptx, app_vars, LAST_KNOWN_ID, wpc, last_id, new_notifications,
                   mainq, toast_vars, keep_vars, hook_vars, side_vars>>
    /\ last_op' = OtherOp

----------------------------------------------------------------------------
\* Initial state: the app's setup has run db::open (lib.rs:333), the mute state
\* and the toast state are constructed, watcher::start has not run yet.

Init ==
    /\ rows = {} /\ seq = 0 /\ now = 0
    /\ ptx = [p \in Producers |-> IdleTx]
    /\ opened = FALSE /\ started = FALSE
    /\ global_muted \in BOOLEAN
    /\ muted_repos = {}
    /\ LAST_KNOWN_ID = 0
    /\ last_event = FALSE
    /\ wpc = [t \in Threads |-> "idle"]
    /\ last_id = [t \in Threads |-> 0]
    /\ new_notifications = [t \in Threads |-> <<>>]
    /\ mainq = <<>>
    /\ queue = <<>> /\ current_index = 0 /\ is_visible = FALSE
    /\ persistent \in BOOLEAN
    /\ TOAST_TIMER = "none" /\ FADE_TIMER = "none"
    /\ timers = 0 /\ fade_timers = 0
    /\ hooks = [p \in Producers |-> IdleHook] /\ nhooks = 0
    /\ clock = 0 /\ rx = <<>> /\ last_event_at = None /\ fw_pc = "top"
    /\ timeout_at = Forever /\ burst_checks = 0 /\ nevents = 0
    /\ held = [l \in Locks |-> NoHolder] /\ cmd = NoCmd
    /\ muted_handed = {}
    /\ ninserts = 0 /\ max_issued = 0
    /\ handed = {} /\ historic = {}
    /\ last_op = OtherOp

----------------------------------------------------------------------------
\* The store alone: producers, the app's delete commands and the tray menu.

InputsStore == {Input(pane, "", FALSE, "repoA") : pane \in Panes}

InitStore == Init /\ global_muted = FALSE /\ persistent = FALSE

NextStore ==
    \/ \E p \in Producers, input \in InputsStore :
           ninserts < MaxInsertsStore /\ insert_delete(p, input)
    \/ \E p \in Producers, d \in {0, 1} : insert_insert(p, d)
    \/ \E p \in Producers, input \in InputsStore, d \in {0, 1} :
           ninserts < MaxInsertsStore /\ insert_insert_only(p, input, d)
    \/ \E p \in Producers : insert_commit(p)
    \/ \E id \in 1..MaxInsertsStore : delete_notification(id)
    \/ \E pane \in Panes : delete_notifications_by_pane(pane)
    \/ \E panes \in SUBSET Panes : delete_notifications_by_panes(panes)
    \/ delete_all_notifications
    \/ clear_all

SpecStore == InitStore /\ [][NextStore]_vars

----------------------------------------------------------------------------
\* Hook processes (agentoast-cli main.rs): `agentoast hook <agent>`.

HookAgents == {"claude", "codex", "opencode"}

\* What the process is started with: "unreadable" is standard input that
\* read_to_string rejects (claude only, the others take the JSON as an
\* argument), "invalid" is text serde_json rejects, "filtered" is an event the
\* configuration does not list (or an opencode session.status that is not
\* idle), "event" is an event that produces a notification.
HookPayloads == {"unreadable", "invalid", "filtered", "event"}

\* TMUX_PANE and __CFBundleIdentifier of the hook's environment, and the
\* repository found from the payload's cwd.
InputsHook == {Input(pane, "", FALSE, "repoA") : pane \in {"", "%1"}}

SetHook(h, rec) == hooks' = [hooks EXCEPT ![h] = rec]

\* main.rs:478-561: clap dispatches to handle_<agent>_hook.  home is whether
\* the environment lets config_dir/data_dir find a directory (HOME or the XDG
\* variable is set).
hook_invoke(h, agent, payload, home) ==
    /\ hooks[h].pc = "idle"
    /\ ptx[h].stage = "idle"
    /\ nhooks < MaxHooks
    /\ payload = "unreadable" => agent = "claude"
    /\ SetHook(h, [IdleHook EXCEPT !.pc = "start", !.agent = agent,
                                   !.payload = payload, !.home = home])
    /\ nhooks' = nhooks + 1
    /\ UNCHANGED <<store_vars, app_vars, watch_vars, toast_vars, keep_vars, side_vars>>
    /\ last_op' = OtherOp

\* run_claude_hook 211-217, run_codex_hook / run_opencode_hook: read and
\* parse the payload; `?` returns the error to handle_<agent>_hook.
run_parse(h) ==
    /\ hooks[h].pc = "start"
    /\ IF hooks[h].payload \in {"unreadable", "invalid"}
       THEN SetHook(h, [hooks[h] EXCEPT !.pc = "emit", !.result = "err"])
       ELSE SetHook(h, [hooks[h] EXCEPT !.pc = "parsed"])
    /\ UNCHANGED <<store_vars, app_vars, watch_vars, toast_vars, keep_vars, nhooks, side_vars>>
    /\ last_op' = OtherOp

\* run_claude_hook 224-228: config::load_config() -> config_path() ->
\* config_dir(), which panics ("HOME not set", config.rs:31) when neither
\* XDG_CONFIG_HOME nor HOME is set: the process unwinds out of main with
\* status 101 and handle_<agent>_hook never prints.  Otherwise an event that is
\* not configured returns Ok(()) without touching the store.
run_load_config(h) ==
    /\ hooks[h].pc = "parsed"
    /\ IF ~hooks[h].home
       THEN SetHook(h, [hooks[h] EXCEPT !.pc = "exited", !.exit = 101])
       ELSE IF hooks[h].payload = "filtered"
            THEN SetHook(h, [hooks[h] EXCEPT !.pc = "emit", !.result = "ok"])
            ELSE SetHook(h, [hooks[h] EXCEPT !.pc = "configured"])
    /\ UNCHANGED <<store_vars, app_vars, watch_vars, toast_vars, keep_vars, nhooks, side_vars>>
    /\ last_op' = OtherOp

\* run_claude_hook 253-254: db::open_reader, "Failed to open database" on error
run_open_reader(h) ==
    /\ hooks[h].pc = "configured"
    /\ \E ok \in BOOLEAN :
          IF ok
          THEN SetHook(h, [hooks[h] EXCEPT !.pc = "insert"])
          ELSE SetHook(h, [hooks[h] EXCEPT !.pc = "emit", !.result = "err"])
    /\ UNCHANGED <<store_vars, app_vars, watch_vars, toast_vars, keep_vars, nhooks, side_vars>>
    /\ last_op' = OtherOp

\* run_claude_hook 256-270 with db.rs:49-63: the statements of
\* insert_notification's transaction, run by the hook's connection.
run_insert_delete(h, input) == hooks[h].pc = "insert" /\ insert_delete(h, input)

run_insert_insert(h, d) == hooks[h].pc = "insert" /\ insert_insert(h, d)

run_insert_insert_only(h, input, d) ==
    hooks[h].pc = "insert" /\ insert_insert_only(h, input, d)

\* db.rs:49-66 returning Err (busy after busy_timeout, I/O error): `?` drops
\* the transaction, which rolls it back; "Failed to insert notification".
run_insert_failed(h) ==
    /\ hooks[h].pc = "insert"
    /\ ptx' = [ptx EXCEPT ![h] = IdleTx]
    /\ SetHook(h, [hooks[h] EXCEPT !.pc = "emit", !.result = "err"])
    /\ UNCHANGED <<rows, seq, now, app_vars, watch_vars, toast_vars, keep_vars, nhooks, side_vars>>
    /\ last_op' = OtherOp

\* db.rs:65-67 and run_claude_hook 272: the commit succeeds, run returns Ok(())
run_commit(h) ==
    /\ hooks[h].pc = "insert"
    /\ commit_tx(h)
    /\ SetHook(h, [hooks[h] EXCEPT !.pc = "emit", !.result = "ok", !.inserted = TRUE])
    /\ UNCHANGED <<nhooks, side_vars>>

\* handle_claude_hook 460-476: the result of run becomes HookResult, printed
\* as one JSON line; main returns, exit status 0.
emit_result(h) ==
    /\ hooks[h].pc = "emit"
    /\ SetHook(h, [hooks[h] EXCEPT !.pc = "exited", !.exit = 0,
                       !.out = Append(@, [success |-> hooks[h].result = "ok"])])
    /\ UNCHANGED <<store_vars, app_vars, watch_vars, toast_vars, keep_vars, nhooks, side_vars>>
    /\ last_op' = OtherOp

\* The caller has collected the exit status and the output; the producer can
\* be invoked again.
hook_reaped(h) ==
    /\ hooks[h].pc = "exited"
    /\ SetHook(h, IdleHook)
    /\ UNCHANGED <<store_vars, app_vars, watch_vars, toast_vars, keep_vars, nhooks, side_vars>>
    /\ last_op' = OtherOp

InitHook == Init /\ global_muted = FALSE /\ persistent = FALSE

NextHook ==
    \/ \E h \in Producers, agent \in HookAgents, payload \in HookPayloads, home \in BOOLEAN :
           hook_invoke(h, agent, payload, home)
    \/ \E h \in Producers : run_parse(h)
    \/ \E h \in Producers : run_load_config(h)
    \/ \E h \in Producers : run_open_reader(h)
    \/ \E h \in Producers, input \in InputsHook : run_insert_delete(h, input)
    \/ \E h \in Producers, d \in {0, 1} : run_insert_insert(h, d)
    \/ \E h \in Producers, input \in InputsHook, d \in {0, 1} :
           run_insert_insert_only(h, input, d)
    \/ \E h \in Producers : run_insert_failed(h)
    \/ \E h \in Producers : run_commit(h)
    \/ \E h \in Producers : emit_result(h)
    \/ \E h \in Producers : hook_reaped(h)

SpecHook == InitHook /\ [][NextHook]_vars

----------------------------------------------------------------------------
\* Mute state (lib.rs)

\* lib.rs:53-64 (tray item "mute" and command toggle_global_mute)
do_toggle_global_mute ==
    /\ global_muted' = ~global_muted
    /\ UNCHANGED <<store_vars, opened, started, muted_repos, watch_vars, toast_vars, keep_vars, hook_vars, side_vars>>
    /\ last_op' = OtherOp

\* lib.rs:195-210
toggle_repo_mute(repo_path) ==
    /\ muted_repos' = IF repo_path \in muted_repos THEN muted_repos \ {repo_path}
                      ELSE muted_repos \cup {repo_path}
    /\ UNCHANGED <<store_vars, opened, started, global_muted, watch_vars, toast_vars, keep_vars, hook_vars, side_vars>>
    /\ last_op' = OtherOp

----------------------------------------------------------------------------
\* Watcher (watcher.rs)

SelectIds(s, ids) == SelectSeq(s, LAMBDA n : n.id \in ids)
Ids(s) == {s[i].id : i \in 1..Len(s)}
Uids(s) == {s[i].uid : i \in 1..Len(s)}

\* watcher.rs:21: db::open, which runs schema::initialize
start_open ==
    /\ ~opened
    /\ NoWriter
    /\ initialize
    /\ opened' = TRUE
    /\ UNCHANGED <<now, ptx, started, global_muted, muted_repos, watch_vars, toast_vars,
                   keep_vars, hook_vars, side_vars>>
    /\ last_op' = OtherOp

\* watcher.rs:22-24: the cursor's first value; the two threads are spawned after
\* it (watcher.rs:36, 119).
start ==
    /\ opened /\ ~started
    /\ LAST_KNOWN_ID' = get_max_id(rows)
    /\ started' = TRUE
    /\ historic' = rows
    /\ UNCHANGED <<store_vars, opened, global_muted, muted_repos, last_event, wpc, last_id,
                   new_notifications, mainq, toast_vars, ninserts, max_issued, handed,
                   hook_vars, side_vars>>
    /\ last_op' = OtherOp

\* A thread leaves check_new_notifications: its locals die.
Return(t) ==
    /\ wpc' = [wpc EXCEPT ![t] = "idle"]
    /\ last_id' = [last_id EXCEPT ![t] = 0]
    /\ new_notifications' = [new_notifications EXCEPT ![t] = <<>>]

\* watcher.rs:190. The file-watcher thread calls check_new_notifications when a
\* relevant event is pending and quiet (watcher.rs:64-113), the polling thread
\* after every sleep (watcher.rs:131-134).
check_load(t) ==
    /\ started
    /\ wpc[t] = "idle"
    /\ IF t = "file-watcher" THEN last_event /\ last_event' = FALSE
       ELSE UNCHANGED last_event
    /\ last_id' = [last_id EXCEPT ![t] = LAST_KNOWN_ID]
    /\ wpc' = [wpc EXCEPT ![t] = "loaded"]
    /\ UNCHANGED <<store_vars, app_vars, LAST_KNOWN_ID, new_notifications, mainq,
                   toast_vars, keep_vars, hook_vars, side_vars>>
    /\ last_op' = OtherOp

\* watcher.rs:192-202, the query succeeds
check_query(t) ==
    /\ wpc[t] = "loaded"
    /\ LET found == get_notifications_after_id(rows, last_id[t])
       IN /\ IF found = <<>> THEN Return(t)
             ELSE /\ new_notifications' = [new_notifications EXCEPT ![t] = found]
                  /\ wpc' = [wpc EXCEPT ![t] = "queried"]
                  /\ UNCHANGED last_id
          /\ last_op' = [op |-> "query", thread |-> t, after_id |-> last_id[t]]
    /\ UNCHANGED <<store_vars, app_vars, LAST_KNOWN_ID, last_event, mainq,
                   toast_vars, keep_vars, hook_vars, side_vars>>

check_query_failed_skipping(t) ==
    /\ wpc[t] = "loaded"
    /\ Return(t)
    /\ LAST_KNOWN_ID' = get_max_id(rows)
    /\ UNCHANGED <<store_vars, app_vars, last_event, mainq,
                   toast_vars, keep_vars, hook_vars, side_vars>>
    /\ last_op' = [op |-> "query_failed", thread |-> t]

\* watcher.rs:192-198, the query fails
check_query_failed(t) ==
    /\ wpc[t] = "loaded"
    /\ Return(t)
    /\ UNCHANGED <<store_vars, app_vars, LAST_KNOWN_ID, last_event, mainq,
                   toast_vars, keep_vars, hook_vars, side_vars>>
    /\ last_op' = [op |-> "query_failed", thread |-> t]

\* watcher.rs:210-213
check_store(t) ==
    /\ wpc[t] = "queried"
    /\ LAST_KNOWN_ID' = Last(new_notifications[t]).id
    /\ wpc' = [wpc EXCEPT ![t] = "stored"]
    /\ UNCHANGED <<store_vars, app_vars, last_event, last_id, new_notifications, mainq,
                   toast_vars, keep_vars, hook_vars, side_vars>>
    /\ last_op' = OtherOp

\* terminal.rs:180-206: the ids of batch that is_pane_visible_to_user may report
\* visible (what the terminal and tmux answer is the environment's choice)
MayBeVisible(batch) ==
    {batch[i].id : i \in {j \in 1..Len(batch) :
          batch[j].terminal_bundle_id # "" /\ batch[j].tmux_pane # ""}}

\* watcher.rs:138-187: resolve_pane_repo's possible answers, one per pane
NoRepo == "none"
Resolutions == [Panes \ {""} -> Repos \cup {NoRepo}]

is_muted_at_insert(n, is_global_muted, repos, resolve) == n.muted_at_insert

\* watcher.rs:266-286 (macOS)
is_muted(n, is_global_muted, repos, resolve) ==
    IF is_global_muted THEN TRUE
    ELSE IF repos = {} THEN FALSE
    ELSE IF n.tmux_pane # "" /\ resolve[n.tmux_pane] # NoRepo
         THEN resolve[n.tmux_pane] \in repos
    ELSE FALSE

\* watcher.rs:215-246: the partition by is_pane_visible_to_user
suppressed_of_none(batch, vis) == <<>>

suppressed_of(batch, vis) == SelectSeq(batch, LAMBDA n : n.id \in vis)
remaining_of_all(batch, vis) == batch

remaining_of(batch, vis) == SelectSeq(batch, LAMBDA n : n.id \notin vis)

\* watcher.rs:288-290
focus_notifications_of(remaining) == SelectSeq(remaining, LAMBDA n : n.force_focus)
normal_notifications_of(remaining) == SelectSeq(remaining, LAMBDA n : ~n.force_focus)

\* watcher.rs:292-300
filtered_toast_of(remaining, g, repos, resolve) ==
    SelectSeq(normal_notifications_of(remaining) \o focus_notifications_of(remaining),
              LAMBDA n : ~is_muted(n, g, repos, resolve))

\* watcher.rs:315-317
muted_focus_of(remaining, g, repos, resolve) ==
    SelectSeq(focus_notifications_of(remaining), LAMBDA n : is_muted(n, g, repos, resolve))

active_focus_of(remaining, g, repos, resolve) ==
    SelectSeq(focus_notifications_of(remaining), LAMBDA n : ~is_muted(n, g, repos, resolve))

\* watcher.rs:310-322: the payloads emitted as notifications:new, in order
emitted_new_of(remaining, g, repos, resolve) ==
    (IF normal_notifications_of(remaining) # <<>>
       THEN <<normal_notifications_of(remaining)>> ELSE <<>>)
    \o (IF muted_focus_of(remaining, g, repos, resolve) # <<>>
          THEN <<muted_focus_of(remaining, g, repos, resolve)>> ELSE <<>>)

focus_tasks_of_first(active_focus) ==
    IF active_focus = <<>> THEN <<>>
    ELSE <<[kind |-> "focus", tmux_pane |-> Head(active_focus).tmux_pane,
            terminal_bundle_id |-> Head(active_focus).terminal_bundle_id,
            id |-> Head(active_focus).id, batch |-> <<>>]>>

\* watcher.rs:324-337: the focus closure handed to the main thread
focus_tasks_of(active_focus) ==
    IF active_focus = <<>> THEN <<>>
    ELSE <<[kind |-> "focus", tmux_pane |-> Last(active_focus).tmux_pane,
            terminal_bundle_id |-> Last(active_focus).terminal_bundle_id,
            id |-> Last(active_focus).id, batch |-> <<>>]>>

\* watcher.rs:302-308: the toast batch handed to the main thread
toast_tasks_of(filtered_toast) ==
    IF filtered_toast = <<>> THEN <<>>
    ELSE <<[kind |-> "toast", tmux_pane |-> "", terminal_bundle_id |-> "", id |-> 0,
            batch |-> filtered_toast]>>

\* watcher.rs:266-286, 297-300, 316-317: is_muted runs resolve_pane_repo (two
\* subprocesses) each time it is called; a force-focus notification is tested
\* once by the toast filter and once more by the partition, so the two tests
\* may get different answers about its pane
SecondResolutions(remaining, g, repos, resolve) ==
    IF g \/ repos = {} \/ focus_notifications_of(remaining) = <<>>
      THEN {resolve} ELSE Resolutions

\* watcher.rs:215-350: the rest of check_new_notifications, on the batch read.
\* Its deletes wait for the engine's write lock.
check_dispatch(t) ==
    /\ wpc[t] = "stored"
    /\ \E vis \in SUBSET MayBeVisible(new_notifications[t]) :
       \E resolve \in (IF global_muted \/ muted_repos = {}
                         THEN {[c \in Panes \ {""} |-> NoRepo]} ELSE Resolutions) :
       \E resolve2 \in SecondResolutions(remaining_of(new_notifications[t], vis),
                                         global_muted, muted_repos, resolve) :
         LET batch == new_notifications[t]
             suppressed == suppressed_of(batch, vis)
             remaining == remaining_of(batch, vis)
             toast == filtered_toast_of(remaining, global_muted, muted_repos, resolve)
             active == active_focus_of(remaining, global_muted, muted_repos, resolve2)
             deleted == Ids(suppressed) \cup Ids(active)
             toast_muted == SelectSeq(remaining,
                               LAMBDA n : is_muted(n, global_muted, muted_repos, resolve))
         IN /\ deleted # {} => NoWriter
            /\ rows' = {r \in rows : r.id \notin deleted}
            /\ IF deleted # {} THEN fs_event ELSE UNCHANGED last_event
            /\ mainq' = mainq \o toast_tasks_of(toast) \o focus_tasks_of(active)
            /\ handed' = handed \cup Uids(batch)
            /\ muted_handed' = muted_handed \cup Uids(toast_muted)
            /\ last_op' =
                 [op |-> "dispatch", thread |-> t, batch |-> batch, visible |-> vis,
                  suppressed |-> Ids(suppressed),
                  muted |-> Ids(SelectSeq(normal_notifications_of(remaining),
                                  LAMBDA n : is_muted(n, global_muted, muted_repos, resolve)))
                            \cup Ids(muted_focus_of(remaining, global_muted, muted_repos,
                                                    resolve2)),
                  toast |-> toast,
                  emitted |-> IF remaining = <<>> THEN <<>>
                              ELSE emitted_new_of(remaining, global_muted, muted_repos, resolve2),
                  focus |-> focus_tasks_of(active),
                  deleted |-> deleted,
                  unread_count |-> <<get_unread_count(rows')>>]
    /\ Return(t)
    /\ UNCHANGED <<seq, now, ptx, app_vars, LAST_KNOWN_ID, toast_vars,
                   ninserts, max_issued, historic, hook_vars, deb_vars, lock_vars>>

----------------------------------------------------------------------------
\* The file-watcher thread's debounce loop (watcher.rs:61-116), in time.  A
\* file name is the sequence of its pieces, so that starts_with is computed.

\* watcher.rs:57-59, 61: the store's file name and the debounce window (300 ms)
DbName == <<"notifications.db">>
Debounce == 3

\* The files of the watched directory: the store, its -wal and -shm files,
\* another file whose name begins with the store's name and a dash, and a
\* file of another name.
FileNames ==
    { DbName, DbName \o <<"-", "wal">>, DbName \o <<"-", "shm">>,
      DbName \o <<"-", "journal">>, <<"config.toml">> }

\* notify::EventKind, as far as the loop tells its values apart
EventKinds == {"create", "modify", "remove"}

\* What the notify watcher sends: Ok(event) for a path of the directory, or Err
WatchError == [name |-> <<>>, kind |-> "error"]
WatchEvents == [name : FileNames, kind : EventKinds] \cup {WatchError}

\* str::starts_with
starts_with(n, prefix) ==
    Len(n) >= Len(prefix) /\ SubSeq(n, 1, Len(prefix)) = prefix

\* watcher.rs:81-94
is_db_event(n) ==
    \/ n = DbName
    \/ starts_with(n, DbName \o <<"-">>)
    \/ n = DbName \o <<"-", "wal">>
    \/ n = DbName \o <<"-", "shm">>

\* watcher.rs:96-103: the event sets last_event
restarts_window(ev) ==
    ev.kind # "error" /\ is_db_event(ev.name) /\ ev.kind \in {"create", "modify"}

\* The notify watcher's thread sends an event or an error (watcher.rs:45-55)
fs_emit(ev) ==
    /\ started
    /\ nevents < MaxEvents
    /\ rx' = Append(rx, ev)
    /\ nevents' = nevents + 1
    /\ UNCHANGED <<store_vars, app_vars, watch_vars, toast_vars, keep_vars, hook_vars,
                   clock, last_event_at, fw_pc, timeout_at, burst_checks,
                   lock_vars, muted_handed>>
    /\ last_op' = OtherOp

\* 100 ms pass
tick ==
    /\ clock < MaxClock
    /\ clock' = clock + 1
    /\ UNCHANGED <<store_vars, app_vars, watch_vars, toast_vars, keep_vars, hook_vars,
                   rx, last_event_at, fw_pc, timeout_at, burst_checks, nevents,
                   lock_vars, muted_handed>>
    /\ last_op' = OtherOp

\* The loop calls check_new_notifications (watcher.rs:69, 109), which begins
\* with the load of the cursor (watcher.rs:190); the loop goes on at `back`
\* when the check has returned.
fw_check(back) ==
    /\ wpc["file-watcher"] = "idle"
    /\ last_id' = [last_id EXCEPT !["file-watcher"] = LAST_KNOWN_ID]
    /\ wpc' = [wpc EXCEPT !["file-watcher"] = "loaded"]
    /\ fw_pc' = back
    /\ burst_checks' = burst_checks + 1
    /\ last_op' = [op |-> "fw_check", elapsed |-> clock - last_event_at]
    /\ UNCHANGED <<LAST_KNOWN_ID, last_event, new_notifications, mainq,
                   last_event_at, timeout_at>>

\* watcher.rs:65-77: the top of the loop chooses the timeout
fw_top ==
    /\ started
    /\ fw_pc = "top"
    /\ IF last_event_at # None /\ clock - last_event_at >= Debounce
         THEN fw_check("checked_top")
       ELSE /\ timeout_at' = IF last_event_at # None
                               THEN clock + (Debounce - (clock - last_event_at))
                               ELSE Forever
            /\ fw_pc' = "recv"
            /\ last_op' = OtherOp
            /\ UNCHANGED <<watch_vars, last_event_at, burst_checks>>
    /\ UNCHANGED <<store_vars, app_vars, toast_vars, keep_vars, hook_vars,
                   clock, rx, nevents, lock_vars, muted_handed>>

\* watcher.rs:70-71, 110: the check has returned; last_event = None
fw_checked ==
    /\ fw_pc \in {"checked_top", "checked_timeout"}
    /\ wpc["file-watcher"] = "idle"
    /\ last_event_at' = None
    /\ IF fw_pc = "checked_top"
         THEN timeout_at' = Forever /\ fw_pc' = "recv"
         ELSE timeout_at' = timeout_at /\ fw_pc' = "top"
    /\ UNCHANGED <<store_vars, app_vars, watch_vars, toast_vars, keep_vars, hook_vars,
                   clock, rx, burst_checks, nevents, lock_vars, muted_handed>>
    /\ last_op' = OtherOp

\* watcher.rs:79-106: recv_timeout returns a message of the channel
fw_recv ==
    /\ fw_pc = "recv"
    /\ rx # <<>>
    /\ rx' = Tail(rx)
    /\ IF restarts_window(Head(rx))
         THEN last_event_at' = clock /\ burst_checks' = 0
         ELSE UNCHANGED <<last_event_at, burst_checks>>
    /\ fw_pc' = "top"
    /\ UNCHANGED <<store_vars, app_vars, watch_vars, toast_vars, keep_vars, hook_vars,
                   clock, timeout_at, nevents, lock_vars, muted_handed>>
    /\ last_op' = [op |-> "recv", event |-> Head(rx)]

\* watcher.rs:107-112: recv_timeout gives up
fw_timeout ==
    /\ fw_pc = "recv"
    /\ rx = <<>>
    /\ clock >= timeout_at
    /\ IF last_event_at # None
         THEN fw_check("checked_timeout")
       ELSE /\ fw_pc' = "top"
            /\ last_op' = OtherOp
            /\ UNCHANGED <<watch_vars, last_event_at, burst_checks, timeout_at>>
    /\ UNCHANGED <<store_vars, app_vars, toast_vars, keep_vars, hook_vars,
                   clock, rx, nevents, lock_vars, muted_handed>>

----------------------------------------------------------------------------
\* Commands step by step, with the Mutex guards they hold (lib.rs).  A guard
\* bound by `let` lives to the end of its block.  A step that performs
\* blocking I/O is labelled [op |-> "io"].

Locked(l, name) == held' = [held EXCEPT ![l] = name]
Unlocked(l) == held' = [held EXCEPT ![l] = NoHolder]
IoOp(what) == [op |-> "io", by |-> cmd.name, what |-> what]

\* lib.rs:53-59: lock MuteState, flip the flag, emit mute:changed, update the tray
do_toggle_global_mute_locked ==
    /\ cmd = NoCmd
    /\ held["mute"] = NoHolder
    /\ Locked("mute", "do_toggle_global_mute")
    /\ global_muted' = ~global_muted
    /\ cmd' = [name |-> "do_toggle_global_mute", pc |-> "save", arg |-> 0]
    /\ UNCHANGED <<store_vars, opened, started, muted_repos, watch_vars, toast_vars,
                   keep_vars, hook_vars, deb_vars, muted_handed>>
    /\ last_op' = OtherOp

\* lib.rs:60-62: config::save_panel_muted writes config.toml
do_toggle_global_mute_save ==
    /\ cmd.name = "do_toggle_global_mute"
    /\ cmd.pc = "save"
    /\ cmd' = [cmd EXCEPT !.pc = "return"]
    /\ UNCHANGED <<store_vars, app_vars, watch_vars, toast_vars, keep_vars, hook_vars,
                   deb_vars, held, muted_handed>>
    /\ last_op' = IoOp("config")

\* lib.rs:63-64: the function returns and the guard `state` is dropped
do_toggle_global_mute_return ==
    /\ cmd.name = "do_toggle_global_mute"
    /\ cmd.pc = "return"
    /\ Unlocked("mute")
    /\ cmd' = NoCmd
    /\ UNCHANGED <<store_vars, app_vars, watch_vars, toast_vars, keep_vars, hook_vars,
                   deb_vars, muted_handed>>
    /\ last_op' = OtherOp

\* lib.rs:142: lock AppState
delete_notification_locked(id) ==
    /\ cmd = NoCmd
    /\ held["app"] = NoHolder
    /\ Locked("app", "delete_notification")
    /\ cmd' = [name |-> "delete_notification", pc |-> "exec", arg |-> id]
    /\ UNCHANGED <<store_vars, app_vars, watch_vars, toast_vars, keep_vars, hook_vars,
                   deb_vars, muted_handed>>
    /\ last_op' = OtherOp

\* lib.rs:143-148: open a connection, delete the row, count the unread rows
delete_notification_exec ==
    /\ cmd.name = "delete_notification"
    /\ cmd.pc = "exec"
    /\ NoWriter
    /\ rows' = db_delete_notification(rows, cmd.arg)
    /\ fs_event
    /\ cmd' = [cmd EXCEPT !.pc = "return"]
    /\ UNCHANGED <<seq, now, ptx, app_vars, LAST_KNOWN_ID, wpc, last_id, new_notifications,
                   mainq, toast_vars, keep_vars, hook_vars, deb_vars, held, muted_handed>>
    /\ last_op' = IoOp("store")

\* lib.rs:149-150: the function returns and the guard `state` is dropped
delete_notification_return ==
    /\ cmd.name = "delete_notification"
    /\ cmd.pc = "return"
    /\ Unlocked("app")
    /\ cmd' = NoCmd
    /\ UNCHANGED <<store_vars, app_vars, watch_vars, toast_vars, keep_vars, hook_vars,
                   deb_vars, muted_handed>>
    /\ last_op' = OtherOp

\* lib.rs:223-226: lock AppState, set the flag of the config in memory, and
\* drop the guard at the end of the inner block
save_filter_notified_only_update(value) ==
    /\ cmd = NoCmd
    /\ held["app"] = NoHolder
    /\ cmd' = [name |-> "save_filter_notified_only", pc |-> "save",
               arg |-> IF value THEN 1 ELSE 0]
    /\ UNCHANGED <<store_vars, app_vars, watch_vars, toast_vars, keep_vars, hook_vars,
                   deb_vars, held, muted_handed>>
    /\ last_op' = OtherOp

\* lib.rs:227-231: config::save_panel_filter_notified_only writes config.toml
save_filter_notified_only_save ==
    /\ cmd.name = "save_filter_notified_only"
    /\ cmd.pc = "save"
    /\ cmd' = NoCmd
    /\ UNCHANGED <<store_vars, app_vars, watch_vars, toast_vars, keep_vars, hook_vars,
                   deb_vars, held, muted_handed>>
    /\ last_op' = IoOp("config")

----------------------------------------------------------------------------
\* Toast queue (native_toast.rs). The functions are state transformers over the
\* record Toast of ToastState and the two timer slots; current_index counts
\* from 0 as in the source.

Toast == [queue |-> queue, current_index |-> current_index, is_visible |-> is_visible,
          TOAST_TIMER |-> TOAST_TIMER, FADE_TIMER |-> FADE_TIMER,
          timers |-> timers, fade_timers |-> fade_timers]

SetToast(s) ==
    /\ queue' = s.queue
    /\ current_index' = s.current_index
    /\ is_visible' = s.is_visible
    /\ TOAST_TIMER' = s.TOAST_TIMER
    /\ FADE_TIMER' = s.FADE_TIMER
    /\ timers' = s.timers
    /\ fade_timers' = s.fade_timers
    /\ UNCHANGED persistent

cancel_timer_no_invalidate(s) == [s EXCEPT !.TOAST_TIMER = "none"]

\* native_toast.rs:1130-1136
cancel_timer(s) ==
    [s EXCEPT !.TOAST_TIMER = "none",
              !.timers = IF s.TOAST_TIMER = "live" THEN s.timers - 1 ELSE s.timers]

\* native_toast.rs:1117-1128
start_timer(s) ==
    [cancel_timer(s) EXCEPT !.TOAST_TIMER = "live", !.timers = cancel_timer(s).timers + 1]

\* native_toast.rs:1152-1158
cancel_fade_timer(s) ==
    [s EXCEPT !.FADE_TIMER = "none",
              !.fade_timers = IF s.FADE_TIMER = "live" THEN s.fade_timers - 1
                              ELSE s.fade_timers]

\* native_toast.rs:1138-1150
start_fade_timer(s) ==
    [cancel_fade_timer(s) EXCEPT !.FADE_TIMER = "live",
                                 !.fade_timers = cancel_fade_timer(s).fade_timers + 1]

hide_keep_queue(s) == [cancel_fade_timer(cancel_timer(s)) EXCEPT !.is_visible = FALSE]

\* native_toast.rs:291-308
hide(s) ==
    [cancel_fade_timer(cancel_timer(s)) EXCEPT
        !.is_visible = FALSE, !.queue = <<>>, !.current_index = 0]

update_and_show_always_timer(s) ==
    IF s.current_index >= Len(s.queue) THEN hide(s) ELSE start_timer(s)

\* native_toast.rs:312-378
update_and_show(s) ==
    IF s.current_index >= Len(s.queue) THEN hide(s)
    ELSE IF ~persistent THEN start_timer(s)
    ELSE s

remaining_after_merge_unfiltered(s, notifications) ==
    SubSeq(s.queue, s.current_index + 1, Len(s.queue))

\* native_toast.rs:270-278: the not yet displayed items that no new item supersedes
remaining_after_merge(s, notifications) ==
    SelectSeq(SubSeq(s.queue, s.current_index + 1, Len(s.queue)),
              LAMBDA q : ~\E i \in 1..Len(notifications) :
                  notifications[i].tmux_pane # "" /\ q.tmux_pane = notifications[i].tmux_pane)

show_notifications_fifo(s, notifications) ==
    IF notifications = <<>> THEN s
    ELSE LET c == cancel_fade_timer(cancel_timer(s))
         IN IF c.queue = <<>> \/ ~c.is_visible
            THEN update_and_show([c EXCEPT !.queue = notifications,
                                           !.current_index = 0, !.is_visible = TRUE])
            ELSE update_and_show([c EXCEPT
                     !.queue = Reverse(notifications) \o remaining_after_merge(c, notifications),
                     !.current_index = 0])

show_notifications_keep_all(s, notifications) ==
    IF notifications = <<>> THEN s
    ELSE LET c == cancel_fade_timer(cancel_timer(s))
         IN IF c.queue = <<>> \/ ~c.is_visible
            THEN update_and_show([c EXCEPT !.queue = Reverse(notifications),
                                           !.current_index = 0, !.is_visible = TRUE])
            ELSE update_and_show([c EXCEPT
                     !.queue = Reverse(notifications)
                               \o SubSeq(c.queue, c.current_index + 1, Len(c.queue)),
                     !.current_index = 0])

show_notifications_no_cancel_fade(s, notifications) ==
    IF notifications = <<>> THEN s
    ELSE LET c == cancel_timer(s)
         IN IF c.queue = <<>> \/ ~c.is_visible
            THEN update_and_show([c EXCEPT !.queue = Reverse(notifications),
                                           !.current_index = 0, !.is_visible = TRUE])
            ELSE update_and_show([c EXCEPT
                     !.queue = Reverse(notifications) \o remaining_after_merge(c, notifications),
                     !.current_index = 0])

\* native_toast.rs:237-289
show_notifications(s, notifications) ==
    IF notifications = <<>> THEN s
    ELSE LET c == cancel_fade_timer(cancel_timer(s))
         IN IF c.queue = <<>> \/ ~c.is_visible
            THEN update_and_show([c EXCEPT !.queue = Reverse(notifications),
                                           !.current_index = 0, !.is_visible = TRUE])
            ELSE update_and_show([c EXCEPT
                     !.queue = Reverse(notifications) \o remaining_after_merge(c, notifications),
                     !.current_index = 0])

\* native_toast.rs:1058-1070
advance(s) == update_and_show([s EXCEPT !.current_index = s.current_index + 1])

fade_out_and_hide_no_timer(s) == cancel_timer(s)

\* native_toast.rs:1072-1091
fade_out_and_hide(s) == start_fade_timer(cancel_timer(s))

advance_or_hide_always_advance(s) == advance(s)

advance_or_hide_unchecked(s) == [s EXCEPT !.current_index = s.current_index + 1]

\* native_toast.rs:1160-1177
advance_or_hide(s) ==
    IF s.current_index + 1 < Len(s.queue) THEN advance(s) ELSE fade_out_and_hide(s)

\* The dispatch event toast_show(notifications) reaches the queue: the closure
\* of watcher.rs:305-307 runs on the main thread and enqueues the batch.
toast_show(s, notifications) == show_notifications(s, notifications)

\* The main thread runs the next closure handed to run_on_main_thread
\* (watcher.rs:305-307 the toast batch, watcher.rs:331-335 focus_terminal, which
\* only acts on the terminal).
main_run ==
    /\ mainq # <<>>
    /\ mainq' = Tail(mainq)
    /\ IF Head(mainq).kind = "toast"
       THEN /\ SetToast(toast_show(Toast, Head(mainq).batch))
            /\ last_op' = [op |-> "show", batch |-> Head(mainq).batch,
                            old_queue |-> queue, old_index |-> current_index,
                            old_visible |-> is_visible,
                            pending |-> timers + fade_timers]
       ELSE UNCHANGED toast_vars /\ last_op' = OtherOp
    /\ UNCHANGED <<store_vars, app_vars, LAST_KNOWN_ID, last_event, wpc, last_id,
                   new_notifications, keep_vars, hook_vars, side_vars>>

\* An NSTimer scheduled by start_timer fires (native_toast.rs:1120-1122): if it
\* is the one in the slot, the slot now holds a fired timer.
timer_fired ==
    /\ timers > 0
    /\ \E in_slot \in BOOLEAN :
         /\ in_slot => TOAST_TIMER = "live"
         /\ ~in_slot => (TOAST_TIMER # "live" \/ timers > 1)
         /\ SetToast(advance_or_hide(
                [Toast EXCEPT !.timers = timers - 1,
                              !.TOAST_TIMER = IF in_slot THEN "dead" ELSE TOAST_TIMER]))
    /\ UNCHANGED <<store_vars, app_vars, watch_vars, keep_vars, hook_vars, side_vars>>
    /\ last_op' = [op |-> "timer", pending |-> timers + fade_timers]

\* An NSTimer scheduled by start_fade_timer fires (native_toast.rs:1142-1144)
fade_timer_fired ==
    /\ fade_timers > 0
    /\ \E in_slot \in BOOLEAN :
         /\ in_slot => FADE_TIMER = "live"
         /\ ~in_slot => (FADE_TIMER # "live" \/ fade_timers > 1)
         /\ SetToast(hide(
                [Toast EXCEPT !.fade_timers = fade_timers - 1,
                              !.FADE_TIMER = IF in_slot THEN "dead" ELSE FADE_TIMER]))
    /\ UNCHANGED <<store_vars, app_vars, watch_vars, keep_vars, hook_vars, side_vars>>
    /\ last_op' = [op |-> "fade", pending |-> timers + fade_timers,
                    old_queue |-> queue, old_index |-> current_index]

\* The item under the user's pointer, if any (queue.get(current_index))
HasCurrent == current_index < Len(queue)
Current == queue[current_index + 1]

\* native_toast.rs:969-982 and 1036-1049: the queue's delete of the current item
queue_delete(T) ==
    IF HasCurrent /\ ~Current.force_focus THEN db_delete_notification(T, Current.id) ELSE T

\* The store write of a click handler: it waits for the engine's write lock.
queue_write(T) ==
    /\ (HasCurrent /\ ~Current.force_focus) => NoWriter
    /\ rows' = T
    /\ IF T # rows THEN fs_event ELSE UNCHANGED last_event
    /\ UNCHANGED <<seq, now, ptx, app_vars, LAST_KNOWN_ID, wpc, last_id,
                   new_notifications, mainq, keep_vars, hook_vars, side_vars>>

\* native_toast.rs:984-989: the calls of terminal::focus_terminal a click on the
\* current item makes, with the call's outcome
focus_attempts(ok) ==
    IF HasCurrent /\ Current.tmux_pane # ""
    THEN <<[tmux_pane |-> Current.tmux_pane,
            terminal_bundle_id |-> Current.terminal_bundle_id, ok |-> ok]>>
    ELSE <<>>

\* native_toast.rs:952-997; the toast panel is on screen while is_visible
handle_card_click ==
    /\ is_visible
    /\ queue_write(queue_delete(rows))
    /\ SetToast(advance_or_hide(cancel_timer(Toast)))
    /\ \E ok \in BOOLEAN : last_op' = [op |-> "click", focus |-> focus_attempts(ok),
                                    pending |-> timers + fade_timers]

handle_dismiss_keep_deleting ==
    /\ is_visible
    /\ queue_write(queue_delete(rows))
    /\ SetToast(advance_or_hide(cancel_timer(Toast)))
    /\ last_op' = [op |-> "dismiss_keep", pending |-> timers + fade_timers]

\* native_toast.rs:999-1017
handle_dismiss_keep ==
    /\ is_visible
    /\ SetToast(advance_or_hide(cancel_timer(Toast)))
    /\ UNCHANGED <<store_vars, app_vars, watch_vars, keep_vars, hook_vars, side_vars>>
    /\ last_op' = [op |-> "dismiss_keep", pending |-> timers + fade_timers]

\* native_toast.rs:1019-1056
handle_dismiss_delete ==
    /\ is_visible
    /\ queue_write(queue_delete(rows))
    /\ SetToast(advance_or_hide(cancel_timer(Toast)))
    /\ last_op' = [op |-> "dismiss_delete", pending |-> timers + fade_timers]

----------------------------------------------------------------------------
\* The whole system

InputsFull ==
    { Input("", "", FALSE, "repoA"),
      Input("%1", "term", FALSE, "repoA"),
      Input("%1", "term", TRUE, "repoA"),
      Input("%2", "term", FALSE, "repoB"),
      Input("%2", "", TRUE, "repoB"),
      Input("%3", "term", FALSE, "repoA") }

Next ==
    \/ \E p \in Producers, input \in InputsFull :
           ninserts < MaxInserts /\ insert_delete(p, input)
    \/ \E p \in Producers, d \in {0, 1} : insert_insert(p, d)
    \/ \E p \in Producers, input \in InputsFull, d \in {0, 1} :
           ninserts < MaxInserts /\ insert_insert_only(p, input, d)
    \/ \E p \in Producers : insert_commit(p)
    \/ \E id \in 1..MaxInserts : delete_notification(id)
    \/ \E pane \in Panes : delete_notifications_by_pane(pane)
    \/ \E panes \in SUBSET Panes : delete_notifications_by_panes(panes)
    \/ delete_all_notifications
    \/ clear_all
    \/ do_toggle_global_mute
    \/ \E repo \in Repos : toggle_repo_mute(repo)
    \/ start_open
    \/ start
    \/ \E t \in Threads : check_load(t)
    \/ \E t \in Threads : check_query(t)
    \/ \E t \in Threads : check_query_failed(t)
    \/ \E t \in Threads : check_store(t)
    \/ \E t \in Threads : check_dispatch(t)
    \/ main_run
    \/ timer_fired
    \/ fade_timer_fired
    \/ handle_card_click
    \/ handle_dismiss_keep
    \/ handle_dismiss_delete

Spec == Init /\ [][Next]_vars

----------------------------------------------------------------------------
\* The cursor: one producer, the app's delete command, the tray menu, both
\* watcher threads and the main thread. Nothing is muted, no pane is reported
\* visible, the toast panel is persistent and nobody clicks on it.

InputsCursor ==
    { Input("", "", FALSE, "repoA"),
      Input("%1", "", FALSE, "repoA") }

InitCursor == Init /\ global_muted = FALSE /\ persistent = TRUE

NextCursor ==
    \/ \E input \in InputsCursor : ninserts < MaxInsertsCursor /\ insert_delete("cli1", input)
    \/ insert_insert("cli1", 1)
    \/ \E input \in InputsCursor : ninserts < MaxInsertsCursor /\ insert_insert_only("cli1", input, 1)
    \/ insert_commit("cli1")
    \/ \E id \in 1..MaxInsertsCursor : delete_notification(id)
    \/ clear_all
    \/ start_open
    \/ start
    \/ \E t \in Threads : check_load(t)
    \/ \E t \in Threads : check_query(t)
    \/ \E t \in Threads : check_query_failed(t)
    \/ \E t \in Threads : check_store(t)
    \/ \E t \in Threads : check_dispatch(t)
    \/ main_run

SpecCursor == InitCursor /\ [][NextCursor]_vars

----------------------------------------------------------------------------
\* The mute policy: one producer, the mute toggles, the polling thread and the
\* main thread; the toast panel is persistent and nobody clicks on it.

InputsPolicy ==
    { Input("", "", FALSE, "repoB"),
      Input("%1", "term", FALSE, "repoA"),
      Input("%1", "term", TRUE, "repoA"),
      Input("%2", "", TRUE, "repoB") }

InitPolicy == Init /\ persistent = TRUE

NextPolicy ==
    \/ \E input \in InputsPolicy : ninserts < MaxInsertsPolicy /\ insert_delete("cli1", input)
    \/ insert_insert("cli1", 1)
    \/ \E input \in InputsPolicy :
           ninserts < MaxInsertsPolicy /\ insert_insert_only("cli1", input, 1)
    \/ insert_commit("cli1")
    \/ do_toggle_global_mute
    \/ \E repo \in Repos : toggle_repo_mute(repo)
    \/ start_open
    \/ start
    \/ check_load("polling")
    \/ check_query("polling")
    \/ check_store("polling")
    \/ check_dispatch("polling")
    \/ main_run

SpecPolicy == InitPolicy /\ [][NextPolicy]_vars

----------------------------------------------------------------------------
\* The toast queue: one producer, the polling thread, the main thread, the
\* timers and the user's clicks; mute is off and stays off.

InputsToast ==
    { Input("", "", FALSE, "repoA"),
      Input("%1", "", FALSE, "repoA"),
      Input("%2", "", FALSE, "repoB"),
      Input("%2", "", TRUE, "repoB"),
      Input("%3", "", FALSE, "repoA") }

InitToast == Init /\ global_muted = FALSE

NextToast ==
    \/ \E input \in InputsToast : ninserts < MaxInsertsToast /\ insert_delete("cli1", input)
    \/ insert_insert("cli1", 1)
    \/ \E input \in InputsToast :
           ninserts < MaxInsertsToast /\ insert_insert_only("cli1", input, 1)
    \/ insert_commit("cli1")
    \/ start_open
    \/ start
    \/ check_load("polling")
    \/ check_query("polling")
    \/ check_store("polling")
    \/ check_dispatch("polling")
    \/ main_run
    \/ timer_fired
    \/ fade_timer_fired
    \/ handle_card_click
    \/ handle_dismiss_keep
    \/ handle_dismiss_delete

SpecToast == InitToast /\ [][NextToast]_vars

\* The two watcher threads racing on the cursor, with the queue behind them:
\* inserts with and without a pane, global mute toggled by the user, the
\* panel in persistent mode, and the user's three actions on the card.
InputsRace ==
    { Input("", "", FALSE, "repoA"),
      Input("%1", "", FALSE, "repoA") }

InitRace == Init /\ persistent = TRUE

NextRace ==
    \/ \E input \in InputsRace : ninserts < MaxInsertsRace /\ insert_delete("cli1", input)
    \/ insert_insert("cli1", 1)
    \/ \E input \in InputsRace :
           ninserts < MaxInsertsRace /\ insert_insert_only("cli1", input, 1)
    \/ insert_commit("cli1")
    \/ do_toggle_global_mute
    \/ start_open
    \/ start
    \/ \E t \in Threads : check_load(t)
    \/ \E t \in Threads : check_query(t)
    \/ \E t \in Threads : check_store(t)
    \/ \E t \in Threads : check_dispatch(t)
    \/ main_run
    \/ handle_card_click
    \/ handle_dismiss_keep
    \/ handle_dismiss_delete

SpecRace == InitRace /\ [][NextRace]_vars

\* The polling thread with a query that may fail: inserts without a pane (no
\* row is replaced or deleted), the panel in persistent mode.  The polling
\* loop (watcher.rs:130-133) runs for ever, so each step of a check is taken
\* when it stays enabled; the query is assumed not to fail for ever.
InputsRetry == { Input("", "", FALSE, "repoA") }

InitRetry == Init /\ global_muted = FALSE /\ persistent = TRUE

NextRetry ==
    \/ \E input \in InputsRetry :
           ninserts < MaxInsertsRetry /\ insert_insert_only("cli1", input, 1)
    \/ insert_commit("cli1")
    \/ start_open
    \/ start
    \/ check_load("polling")
    \/ check_query("polling")
    \/ check_query_failed("polling")
    \/ check_store("polling")
    \/ check_dispatch("polling")
    \/ main_run

FairRetry ==
    /\ WF_vars(check_load("polling"))
    /\ SF_vars(check_query("polling"))
    /\ WF_vars(check_store("polling"))
    /\ WF_vars(check_dispatch("polling"))

SpecRetry == InitRetry /\ [][NextRetry]_vars /\ FairRetry

\* The debounce loop in time: the notify watcher sends events and errors, time
\* passes, and the checks the loop starts run their query on the empty store.
InitDebounce == Init /\ global_muted = FALSE /\ persistent = TRUE

NextDebounce ==
    \/ start_open
    \/ start
    \/ \E ev \in WatchEvents : fs_emit(ev)
    \/ tick
    \/ fw_top
    \/ fw_recv
    \/ fw_timeout
    \/ fw_checked
    \/ check_query("file-watcher")
    \/ check_query_failed("file-watcher")

SpecDebounce == InitDebounce /\ [][NextDebounce]_vars

\* The app's commands with their locks, one command at a time, on a store
\* that a producer writes to.
InputsLocks == { Input("", "", FALSE, "repoA") }

InitLocks == Init /\ persistent = TRUE

NextLocks ==
    \/ \E input \in InputsLocks :
           ninserts < MaxInsertsLocks /\ insert_insert_only("cli1", input, 1)
    \/ insert_commit("cli1")
    \/ do_toggle_global_mute_locked
    \/ do_toggle_global_mute_save
    \/ do_toggle_global_mute_return
    \/ \E id \in 1..MaxInsertsLocks : delete_notification_locked(id)
    \/ delete_notification_exec
    \/ delete_notification_return
    \/ \E value \in BOOLEAN : save_filter_notified_only_update(value)
    \/ save_filter_notified_only_save

SpecLocks == InitLocks /\ [][NextLocks]_vars

\* The panel left to its timers: non-persistent mode, batches from the polling
\* thread, no user action.  A scheduled NSTimer of the main run loop fires
\* unless it is invalidated first (native_toast.rs:1116-1128, 1138-1150), so
\* both firings are weakly fair.
InputsTimers ==
    { Input("", "", FALSE, "repoA"),
      Input("%1", "", FALSE, "repoA") }

InitTimers == Init /\ global_muted = FALSE /\ persistent = FALSE

NextTimers ==
    \/ \E input \in InputsTimers : ninserts < MaxInsertsTimers /\ insert_delete("cli1", input)
    \/ insert_insert("cli1", 1)
    \/ \E input \in InputsTimers :
           ninserts < MaxInsertsTimers /\ insert_insert_only("cli1", input, 1)
    \/ insert_commit("cli1")
    \/ start_open
    \/ start
    \/ check_load("polling")
    \/ check_query("polling")
    \/ check_store("polling")
    \/ check_dispatch("polling")
    \/ main_run
    \/ timer_fired
    \/ fade_timer_fired

FairTimers == WF_vars(timer_fired) /\ WF_vars(fade_timer_fired)

SpecTimers == InitTimers /\ [][NextTimers]_vars /\ FairTimers

----------------------------------------------------------------------------
\* The toast panel's clicks next to the tray menu: one producer, the tray's
\* Clear All, the polling thread, the main thread, the clicks and the fade
\* timer; mute is off, the panel is persistent (no auto-advance timer).

InputsClick ==
    { Input("", "", FALSE, "repoA"),
      Input("%1", "", TRUE, "repoB") }

InitClick == Init /\ global_muted = FALSE /\ persistent = TRUE

NextClick ==
    \/ \E input \in InputsClick : ninserts < MaxInsertsClick /\ insert_delete("cli1", input)
    \/ insert_insert("cli1", 1)
    \/ \E input \in InputsClick :
           ninserts < MaxInsertsClick /\ insert_insert_only("cli1", input, 1)
    \/ insert_commit("cli1")
    \/ clear_all
    \/ start_open
    \/ start
    \/ check_load("polling")
    \/ check_query("polling")
    \/ check_store("polling")
    \/ check_dispatch("polling")
    \/ main_run
    \/ fade_timer_fired
    \/ handle_card_click
    \/ handle_dismiss_keep
    \/ handle_dismiss_delete

SpecClick == InitClick /\ [][NextClick]_vars

----------------------------------------------------------------------------
\* Claims about the store

RowsOf(T, c) == {r \in T : r.tmux_pane = c}

\* The step is the commit of an insert of producer p.
IsCommit(p) == ptx[p].stage = "inserted" /\ ptx'[p].stage = "idle"

\* C1: in every reachable state at most one live row exists for each non-empty
\* channel (tmux_pane), under any interleaving of inserts from several producers,
\* delete, delete_by_pane(s), delete_all and Clear All.
C1_ChannelExclusivity ==
    \A c \in Panes \ {""} : Cardinality(RowsOf(rows, c)) <= 1

\* C1 witness: two non-empty channels are live and the last insert replaced a row.
C1_Witness ==
    /\ \E r1, r2 \in rows : r1.tmux_pane # "" /\ r2.tmux_pane # ""
                            /\ r1.tmux_pane # r2.tmux_pane
    /\ last_op.op = "commit"
    /\ last_op.replaced # {}
    /\ last_op.row \in rows

\* C4: after every insert for a non-empty channel C (the N-th in a row, whatever
\* N), list() holds exactly one row whose channel is C, and it is the row that
\* insert created, with the id it returned.
C4_ListHoldsOnlyLatest ==
    [][\A p \in Producers :
         (IsCommit(p) /\ ptx[p].input.tmux_pane # "") =>
            LET L == get_notifications(rows', ListLimit)
                hits == {i \in 1..Len(L) : L[i].tmux_pane = ptx[p].input.tmux_pane}
            IN /\ Cardinality(hits) = 1
               /\ \A i \in hits : /\ L[i].uid = ptx[p].new.uid
                                  /\ L[i].id = ptx[p].new.id]_vars

\* C4 witness: the second (or later) successive insert for a channel has
\* committed: it replaced the channel's row and its own row is the one listed.
C4_Witness ==
    /\ last_op.op = "commit"
    /\ last_op.replaced # {}
    /\ last_op.row.tmux_pane # ""
    /\ \E i \in 1..Len(get_notifications(rows, ListLimit)) :
           get_notifications(rows, ListLimit)[i] = last_op.row
    /\ \A r \in last_op.replaced :
           r \notin Range(get_notifications(rows, ListLimit))

\* C5: an insert for a channel that has a live row replaces it in one step: while
\* a producer's insert is under way the committed table, which is all a reader can
\* see, does not change, and the one step that changes it removes the channel's
\* old row and adds the new row together.
C5_ReplaceIsOneCommit ==
    [][\A p \in Producers :
         (ptx[p].stage # "idle" \/ ptx'[p].stage # "idle") =>
            \/ rows' = rows
            \/ /\ IsCommit(p)
               /\ ptx[p].new \notin rows
               /\ rows' = {r \in rows : \/ ptx[p].input.tmux_pane = ""
                                        \/ r.tmux_pane # ptx[p].input.tmux_pane}
                            \cup {ptx[p].new}]_vars

\* C5 witness: an insert has staged the deletion of its channel's live row and its
\* new row; the committed table still shows the old row and not the new one.
C5_Witness ==
    \E p \in Producers :
        /\ ptx[p].stage = "inserted"
        /\ ptx[p].del # {}
        /\ ptx[p].del \subseteq rows
        /\ ptx[p].new \notin rows

\* C6: for any cursor K, list_after(K) is exactly the live rows with id > K in
\* ascending id order; and once the cursor is the last returned id, list_after of
\* that cursor is empty, now and after any steps that insert no row.
C6_ListAfter ==
    /\ [](\A K \in 0..(ninserts + 1) :
            LET r == get_notifications_after_id(rows, K)
            IN /\ Range(r) = {x \in rows : x.id > K}
               /\ \A i, j \in 1..Len(r) : i < j => r[i].id < r[j].id
               /\ r # <<>> => get_notifications_after_id(rows, Last(r).id) = <<>>)
    /\ [][\A K \in 0..(ninserts + 1) :
            LET r == get_notifications_after_id(rows, K)
            IN (r # <<>> /\ rows' \subseteq rows) =>
                  get_notifications_after_id(rows', Last(r).id) = <<>>]_vars

\* C6 witness: a cursor K > 0 with a live row at or below it and two above it.
C6_Witness ==
    \E K \in 1..ninserts :
        /\ Len(get_notifications_after_id(rows, K)) >= 2
        /\ \E x \in rows : x.id <= K

\* C7: every id returned by insert is greater than every id returned before, so
\* no id is assigned twice.
C7_IdsStrictlyIncreasing ==
    [][\A p \in Producers : IsCommit(p) => ptx[p].new.id > max_issued]_vars

----------------------------------------------------------------------------
\* Claims about the cursor

\* The step is the dispatch that ends a check of thread t.
IsDispatch(t) == wpc[t] = "stored" /\ wpc'[t] = "idle"

\* C2: under any interleaving of the file-watcher thread and the polling thread
\* no row is handed to the policy pipeline by more than one dispatch: a dispatch
\* never hands over a row that an earlier dispatch has handed over.
C2_NoRowDispatchedTwice ==
    [][\A t \in Threads :
         IsDispatch(t) => Uids(new_notifications[t]) \cap handed = {}]_vars

C18_CursorNeverDecreases ==
    [][LAST_KNOWN_ID' >= LAST_KNOWN_ID]_vars

----------------------------------------------------------------------------
\* Claims about the toast queue

\* The step is a call of show_notifications.
IsShow == mainq # <<>> /\ Head(mainq).kind = "toast" /\ mainq' = Tail(mainq)

C9_MergeWhileShowing ==
    [][(IsShow /\ queue # <<>> /\ is_visible) =>
          LET batch == Head(mainq).batch
              chans == {batch[k].tmux_pane : k \in 1..Len(batch)} \ {""}
              kept == {k \in 1..Len(queue) :
                          k >= current_index + 1 /\ queue[k].tmux_pane \notin chans}
          IN /\ Len(queue') = Len(batch) + Cardinality(kept)
             /\ \A k \in 1..Len(batch) : queue'[k] = batch[Len(batch) + 1 - k]
             /\ \A k \in kept :
                   queue'[Len(batch) + Cardinality({j \in kept : j <= k})] = queue[k]
             /\ current_index' = 0
             /\ is_visible']_vars

\* C9 witness: the queue was [X(%1), Y(%2)] at index 0, the batch [Z(%1)] arrived
\* and the queue is now [Z(%1), Y(%2)] at index 0.
C9_Witness ==
    /\ last_op.op = "show"
    /\ last_op.old_visible
    /\ last_op.old_index = 0
    /\ Len(last_op.old_queue) = 2
    /\ Len(last_op.batch) = 1
    /\ LET X == last_op.old_queue[1]
           Y == last_op.old_queue[2]
           Z == last_op.batch[1]
       IN /\ X.tmux_pane = "%1" /\ Y.tmux_pane = "%2" /\ Z.tmux_pane = "%1"
          /\ Z.id # X.id
          /\ queue = <<Z, Y>>
    /\ current_index = 0

----------------------------------------------------------------------------
\* Claims about the mute policy

\* The focus closures a dispatch hands to the main thread for the row with id id.
FocusTasksFor(id) ==
    {k \in 1..Len(last_op'.focus) : last_op'.focus[k].id = id}

\* C10: for a force-focus notification of a dispatched batch that is not
\* suppressed: if global mute is on or its group (repo) is muted, the dispatch
\* leaves its row in the store and hands over no focus for it; otherwise the
\* dispatch deletes its row and, when it is the only force-focus notification of
\* the batch, hands over exactly one focus, which is for it.
C10_ForceFocusMuteDemotion ==
    [][\A t \in Threads : IsDispatch(t) =>
         LET batch == new_notifications[t]
         IN \A i \in 1..Len(batch) :
              (batch[i].force_focus /\ batch[i].id \notin last_op'.suppressed) =>
                 IF global_muted \/ batch[i].repo \in muted_repos
                 THEN /\ batch[i] \in rows => batch[i] \in rows'
                      /\ FocusTasksFor(batch[i].id) = {}
                 ELSE /\ batch[i] \notin rows'
                      /\ (\A j \in 1..Len(batch) : batch[j].force_focus => j = i)
                            => /\ Len(last_op'.focus) = 1
                               /\ FocusTasksFor(batch[i].id) = {1}]_vars

C12_TimerExclusivity ==
    /\ [](timers <= 1)
    /\ [][last_op'.op = "timer" =>
            /\ queue' = queue
            /\ \/ current_index' = current_index + 1 /\ FADE_TIMER' = FADE_TIMER
               \/ /\ current_index' = current_index
                  /\ current_index + 1 >= Len(queue)
                  /\ FADE_TIMER' = "live"]_vars
    /\ [][~IsShow =>
            \/ queue' = queue /\ current_index' \in {current_index, current_index + 1}
            \/ queue' = <<>> /\ current_index' = 0 /\ ~is_visible']_vars

\* C12 witness: a second batch arrived while the first was showing with its timer
\* running, and one timer is outstanding.
C12_Witness ==
    /\ last_op.op = "show"
    /\ last_op.old_visible
    /\ last_op.old_queue # <<>>
    /\ ~persistent
    /\ FADE_TIMER = "none"
    /\ TOAST_TIMER = "live"
    /\ timers = 1
    /\ Len(queue) >= 2

\* C13: a notification without force_focus that is not suppressed and is muted
\* when its batch is dispatched (global mute is on or its group (repo) is muted)
\* is in no toast batch and gets no focus, is in a payload of notifications:new,
\* and its row stays in the store.
C13_MutedNormalIsRecorded ==
    [][\A t \in Threads : IsDispatch(t) =>
         LET batch == new_notifications[t]
         IN \A i \in 1..Len(batch) :
              (/\ ~batch[i].force_focus
               /\ batch[i].id \notin last_op'.visible
               /\ (global_muted \/ batch[i].repo \in muted_repos)) =>
                 /\ batch[i] \notin Range(last_op'.toast)
                 /\ FocusTasksFor(batch[i].id) = {}
                 /\ \E k \in 1..Len(last_op'.emitted) : batch[i] \in Range(last_op'.emitted[k])
                 /\ batch[i] \in rows => batch[i] \in rows']_vars

\* C14: with global mute off, a dispatch treats a notification as muted exactly
\* when its own group (repo) is in the set of muted groups, whatever its pane.
C14_MutedIffGroupMuted ==
    [][\A t \in Threads : (IsDispatch(t) /\ ~global_muted) =>
         LET batch == new_notifications[t]
         IN \A i \in 1..Len(batch) :
              batch[i].id \notin last_op'.visible =>
                 (batch[i].id \in last_op'.muted <=> batch[i].repo \in muted_repos)]_vars

\* The force-focus notifications of the batch of thread t that the dispatch
\* neither suppresses nor finds muted (positions in the batch).
ActiveFocus(t) ==
    {i \in 1..Len(new_notifications[t]) :
        /\ new_notifications[t][i].force_focus
        /\ new_notifications[t][i].id \notin last_op'.visible
        /\ new_notifications[t][i].id \notin last_op'.muted}

C20_SuppressionFirst ==
    [][\A t \in Threads : IsDispatch(t) =>
         LET batch == new_notifications[t]
         IN /\ \A i \in 1..Len(batch) :
                 batch[i].id \in last_op'.visible =>
                    /\ batch[i] \notin Range(last_op'.toast)
                    /\ \A k \in 1..Len(mainq') :
                          k > Len(mainq) => /\ batch[i] \notin Range(mainq'[k].batch)
                                            /\ mainq'[k].id # batch[i].id
                    /\ \A k \in 1..Len(last_op'.emitted) :
                          batch[i] \notin Range(last_op'.emitted[k])
                    /\ FocusTasksFor(batch[i].id) = {}
            /\ last_op'.unread_count = <<get_unread_count(rows')>>
            /\ (\A i \in 1..Len(batch) : batch[i].id \in last_op'.visible) =>
                  /\ mainq' = mainq
                  /\ last_op'.emitted = <<>>]_vars

\* C20 witness: with mute off, a dispatch found a force-focus notification
\* visible: no toast, no focus, nothing emitted but the unread count.
C20_Witness ==
    /\ last_op.op = "dispatch"
    /\ ~global_muted /\ muted_repos = {}
    /\ Len(last_op.batch) = 1
    /\ last_op.batch[1].force_focus
    /\ last_op.batch[1].id \in last_op.visible
    /\ last_op.toast = <<>> /\ last_op.focus = <<>> /\ last_op.emitted = <<>>
    /\ last_op.unread_count = <<0>>
    /\ mainq = <<>>

----------------------------------------------------------------------------
\* Claims about startup

\* C15: the destructive schema initialization runs only at the app's startup
\* (before the initial state): afterwards no step recreates the table, that is,
\* the id sequence is never reset, and opening the watcher's connection removes
\* no row that a producer has inserted.
C15_InitializeOnlyAtStartup ==
    [][/\ seq' >= seq
       /\ opened' # opened => rows' = rows]_vars

----------------------------------------------------------------------------
\* Claims about the hook processes

\* C17: every hook invocation that has ended has exit status 0 and has printed
\* exactly one structured result; the result says success=false exactly when a
\* step of the run failed, and then no notification was inserted.
C17_HookAlwaysReports ==
    \A h \in Producers :
        hooks[h].pc = "exited" =>
            /\ hooks[h].exit = 0
            /\ Len(hooks[h].out) = 1
            /\ hooks[h].out[1].success = (hooks[h].result = "ok")
            /\ ~hooks[h].out[1].success => ~hooks[h].inserted

----------------------------------------------------------------------------
\* Claims about dispatch time

InSeq(x, sq) == \E i \in 1..Len(sq) : sq[i] = x

C22_ToastBatchAscending ==
    last_op.op = "dispatch" =>
        \A i, j \in 1..Len(last_op.toast) :
            i < j => last_op.toast[i].id < last_op.toast[j].id

----------------------------------------------------------------------------
\* Claims about the toast queue's transitions

\* The panel is fading out: the fade-completion timer is pending.
FadingOut == is_visible /\ FADE_TIMER = "live"

\* C23: a batch that arrives while the panel is fading out replaces the queue:
\* afterwards the queue is the batch alone, newest first, at index 0, showing,
\* and the item that was fading out is not in it.
C23_BatchWhileFadingReplaces ==
    [][(IsShow /\ FadingOut) =>
          /\ queue' = Reverse(Head(mainq).batch)
          /\ current_index' = 0
          /\ is_visible' /\ FADE_TIMER' # "live"]_vars

\* The steps that are transitions of the toast queue.
QueueTransitions == {"show", "timer", "dismiss_keep", "dismiss_delete", "click", "fade"}

\* C24: no timer that was pending before a queue transition is still pending
\* after it: after a new batch, a timeout, a dismiss, a click or the fade-out's
\* completion the only timer outstanding is the one the transition armed, held
\* in its slot (an auto-advance timer or a fade-completion timer, never both),
\* and a transition that moves the index forward finds no fade-completion
\* timer pending.
C24_TransitionsCancelTimers ==
    [][last_op'.op \in QueueTransitions =>
          /\ timers' + fade_timers' <= 1
          /\ (TOAST_TIMER' = "live") = (timers' = 1)
          /\ (FADE_TIMER' = "live") = (fade_timers' = 1)
          /\ (current_index' > current_index /\ queue' = queue) => fade_timers = 0]_vars

\* C24 witness: a dismiss while the auto-advance timer was pending has advanced
\* and armed a timer, and that timer is the only one outstanding.
C24_Witness ==
    /\ last_op.op = "dismiss_keep"
    /\ last_op.pending = 1
    /\ current_index > 0
    /\ TOAST_TIMER = "live" /\ timers = 1 /\ fade_timers = 0

\* What "advance when a next item exists, begin the fade-out otherwise" does
\* to the queue in a step: the next item is on display, or the same item is
\* fading out with the fade-completion timer pending; the queue is the same.
AdvancedOrFading ==
    /\ queue' = queue
    /\ is_visible'
    /\ IF current_index + 1 < Len(queue)
       THEN current_index' = current_index + 1 /\ FADE_TIMER' # "live"
       ELSE current_index' = current_index /\ FADE_TIMER' = "live" /\ TOAST_TIMER' = "none"

\* C25: a dismiss-without-delete leaves every row of the store as it is (and
\* the id sequence), whatever the current item is, and advances by one or
\* begins the fade-out.
C25_DismissKeepLeavesStore ==
    [][last_op'.op = "dismiss_keep" =>
          /\ rows' = rows /\ seq' = seq
          /\ AdvancedOrFading]_vars

\* C25 witness: a dismiss-without-delete has advanced past an item that is not
\* force-focus-origin, and the item's row is still in the store.
C25_Witness ==
    /\ last_op.op = "dismiss_keep"
    /\ current_index > 0
    /\ ~queue[current_index].force_focus
    /\ \E r \in rows : r.uid = queue[current_index].uid

\* The row of the store that is the notification of queue item n (the row the
\* item was read from), if it is still there.
RowOfItem(n) == {r \in rows : r.uid = n.uid}

\* C26: a dismiss-with-delete removes from the store the row of the item on
\* display when the item is not force-focus-origin, removes nothing when it
\* is, removes no other row in either case, and advances by one or begins the
\* fade-out.
C26_DismissDeleteOnlyCurrent ==
    [][(last_op'.op = "dismiss_delete" /\ HasCurrent) =>
          /\ rows' = IF Current.force_focus THEN rows ELSE rows \ RowOfItem(Current)
          /\ AdvancedOrFading]_vars

\* C27: a click on the item on display removes the item's row from the store
\* unless the item is force-focus-origin, makes one attempt to focus the
\* item's terminal whether or not the item has a pane, and advances by one or
\* begins the fade-out whether or not the attempt succeeded.
C27_ClickDeletesFocusesAdvances ==
    [][(last_op'.op = "click" /\ HasCurrent) =>
          /\ rows' = IF Current.force_focus THEN rows ELSE rows \ RowOfItem(Current)
          /\ Len(last_op'.focus) = 1
          /\ last_op'.focus[1].tmux_pane = Current.tmux_pane
          /\ last_op'.focus[1].terminal_bundle_id = Current.terminal_bundle_id
          /\ AdvancedOrFading]_vars

\* C28: in non-persistent mode, when the auto-advance timer fires at index i
\* of a queue of n items: if i + 1 < n the item at i + 1 is on display and a
\* new auto-advance timer is armed; otherwise the fade-out has begun (the
\* fade-completion timer is pending, no auto-advance timer) and the queue and
\* the index are as they were.  The queue and the index then stay as they are
\* while the fade-out is pending, unless a new batch arrives.
C28_TimeoutAdvancesOrFades ==
    /\ [][(last_op'.op = "timer" /\ ~persistent) =>
             /\ AdvancedOrFading
             /\ current_index' < Len(queue')
             /\ current_index + 1 < Len(queue) => (TOAST_TIMER' = "live" /\ timers' = 1)
             /\ rows' = rows]_vars
    /\ [][(FadingOut /\ FadingOut') =>
             (last_op'.op = "show" \/ (queue' = queue /\ current_index' = current_index))]_vars

\* C28 witness: in non-persistent mode a timeout has advanced to the second of
\* at least three items and armed the timer again.
C28_Witness ==
    /\ last_op.op = "timer"
    /\ ~persistent
    /\ current_index = 1
    /\ Len(queue) >= 3
    /\ TOAST_TIMER = "live"

\* The panel shows an item and is not fading out.
Showing == is_visible /\ FADE_TIMER # "live"

\* C29: in persistent mode no auto-advance timer is ever outstanding, and
\* while the panel is showing an item the index and the showing state change
\* only by a click, a dismiss or a new batch.
C29_PersistentNoTimer ==
    /\ [](persistent => (timers = 0 /\ TOAST_TIMER # "live"))
    /\ [][(persistent /\ Showing /\ (current_index' # current_index \/ ~Showing')) =>
             last_op'.op \in {"click", "dismiss_keep", "dismiss_delete", "show"}]_vars

\* C29 witness: in persistent mode the panel is showing the second item of a
\* queue after a dismiss, and no timer is outstanding.
C29_Witness ==
    /\ persistent
    /\ Showing
    /\ current_index = 1
    /\ last_op.op = "dismiss_keep"
    /\ timers = 0 /\ fade_timers = 0

\* C30: when the fade-completion timer fires and hide has run, the panel is
\* hidden, the queue is empty, the index is 0 and no timer is outstanding,
\* whatever the queue and the index were.
C30_FadeCompletionHides ==
    [][last_op'.op = "fade" =>
          /\ ~is_visible'
          /\ queue' = <<>>
          /\ current_index' = 0
          /\ timers' = 0 /\ fade_timers' = 0
          /\ TOAST_TIMER' = "none" /\ FADE_TIMER' = "none"]_vars

\* C30 witness: the fade-out of a queue of at least two items, at its last
\* index, has completed.
C30_Witness ==
    /\ last_op.op = "fade"
    /\ Len(last_op.old_queue) >= 2
    /\ last_op.old_index = Len(last_op.old_queue) - 1
    /\ ~is_visible /\ queue = <<>>

\* C35: whenever the panel is visible (showing or fading out) the index is
\* inside the queue, 0 <= current_index < Len(queue), and a step that
\* increases the index starts from an index with a next item.
C35_IndexInsideQueue ==
    /\ [](is_visible => (0 <= current_index /\ current_index < Len(queue)))
    /\ [][current_index' > current_index => current_index + 1 < Len(queue)]_vars

\* C35 witness: the panel shows the last item of a queue of three, reached by
\* advancing.
C35_Witness ==
    /\ is_visible
    /\ Len(queue) = 3
    /\ current_index = 2
    /\ last_op.op \in {"timer", "click", "dismiss_keep", "dismiss_delete"}

----------------------------------------------------------------------------
\* More claims about the store

\* C37: the commit of an insert with an empty pane removes no row: every row
\* stored before it is stored after it, and the store has one row more.
C37_EmptyPaneInsertKeepsRows ==
    [][\A p \in Producers :
          (IsCommit(p) /\ ptx[p].new.tmux_pane = "") =>
              /\ rows \subseteq rows'
              /\ rows' = rows \cup {ptx[p].new}
              /\ Cardinality(rows') = Cardinality(rows) + 1]_vars

\* C37 witness: three inserts with an empty pane have left three rows with an
\* empty pane.
C37_Witness ==
    /\ last_op.op = "commit"
    /\ last_op.row.tmux_pane = ""
    /\ Cardinality(RowsOf(rows, "")) = 3

----------------------------------------------------------------------------
\* More claims about the toast queue

\* C31: in every reachable state no two entries of the queue at or after the
\* current index have the same non-empty pane.
C31_OnePendingEntryPerPane ==
    \A i, j \in (current_index + 1)..Len(queue) :
        (i < j /\ queue[i].tmux_pane # "") => queue[i].tmux_pane # queue[j].tmux_pane

\* C31 witness: a batch has been merged into a visible queue that held a
\* pending entry of one of the batch's panes, and the queue has at least two
\* entries.
C31_Witness ==
    /\ last_op.op = "show"
    /\ last_op.old_visible
    /\ Len(queue) >= 2
    /\ \E i \in (last_op.old_index + 1)..Len(last_op.old_queue) :
       \E j \in 1..Len(last_op.batch) :
          /\ last_op.old_queue[i].tmux_pane # ""
          /\ last_op.old_queue[i].tmux_pane = last_op.batch[j].tmux_pane

----------------------------------------------------------------------------
\* Claims about the two tests of a force-focus notification

\* C40: every force-focus notification of a dispatch that is not suppressed has
\* exactly one of two outcomes: it is in the toast batch, deleted by the
\* dispatch and in no payload of notifications:new; or it is in a payload of
\* notifications:new, not deleted by the dispatch and not in the toast batch.
C40_ForceFocusOneOutcome ==
    last_op.op = "dispatch" =>
        \A i \in 1..Len(last_op.batch) :
            LET n == last_op.batch[i]
                toasted == InSeq(n, last_op.toast)
                deleted == n.id \in last_op.deleted
                emitted == \E k \in 1..Len(last_op.emitted) : InSeq(n, last_op.emitted[k])
            IN (n.force_focus /\ n.id \notin last_op.suppressed) =>
                 \/ toasted /\ deleted /\ ~emitted
                 \/ ~toasted /\ ~deleted /\ emitted

----------------------------------------------------------------------------
\* Claims about the queue behind the two watcher threads

\* C36: the toast queue never holds two entries with the same notification id,
\* under any interleaving of the dispatches of the two watcher threads and any
\* user actions, notifications with an empty pane included.
C36_QueueIdsDistinct ==
    \A i, j \in 1..Len(queue) : i # j => queue[i].id # queue[j].id

\* C39: a notification that a dispatch found muted is never put into a toast
\* batch by a later dispatch, even when mute has been toggled off meanwhile.
C39_MutedNeverToastedLater ==
    [][\A t \in Threads :
         IsDispatch(t) => Uids(last_op'.toast) \cap muted_handed = {}]_vars

----------------------------------------------------------------------------
\* Claims about a failing query

\* Row u is in the store beyond the cursor of the started watcher.
PendingRow(u) == started /\ \E r \in rows : r.uid = u /\ r.id > LAST_KNOWN_ID

\* C32: a check whose list_after query fails leaves the cursor, the rows and
\* the main thread's queue as they are and emits nothing, and its thread is
\* ready for the next trigger; the next check reads the same cursor, so that
\* every row beyond the cursor is dispatched once the query succeeds.
C32_FailedQueryIsRetried ==
    /\ [][last_op'.op = "query_failed" =>
            /\ LAST_KNOWN_ID' = LAST_KNOWN_ID
            /\ rows' = rows
            /\ mainq' = mainq
            /\ toast_vars' = toast_vars
            /\ wpc'[last_op'.thread] = "idle"]_vars
    /\ \A u \in 1..MaxInsertsRetry : PendingRow(u) ~> (u \in handed)

\* C32 witness: a query has failed while a row was waiting beyond the cursor,
\* after an earlier check had dispatched another row.
C32_Witness ==
    /\ last_op.op = "query_failed"
    /\ handed # {}
    /\ \E u \in 1..MaxInsertsRetry : PendingRow(u) /\ u \notin handed

----------------------------------------------------------------------------
\* Claims about the panel left to its timers

\* The panel is hidden: not visible, with an empty queue at index 0.
Hidden == ~is_visible /\ queue = <<>> /\ current_index = 0

\* C38: in non-persistent mode, with fair timers and no user action, a showing
\* panel is eventually hidden once batches stop arriving; until then, while the
\* queue stays the same, the index moves by one item at a time, and the panel
\* is hidden only by the completion of the fade-out that follows the last item.
C38_ShowingEventuallyHidden ==
    /\ is_visible ~> Hidden
    /\ [][(is_visible /\ queue' = queue) =>
             current_index' \in {current_index, current_index + 1}]_vars
    /\ [][(is_visible /\ ~is_visible') =>
             /\ last_op'.op = "fade"
             /\ current_index + 1 = Len(queue)]_vars

\* C38 witness: the fade-out has completed after the last of two items had been
\* shown, and the panel is hidden.
C38_Witness ==
    /\ last_op.op = "fade"
    /\ Len(last_op.old_queue) = 2
    /\ last_op.old_index = 1
    /\ ~persistent
    /\ Hidden

----------------------------------------------------------------------------
\* Claims about the debounce window

\* The events the window is about: Create or Modify on the store file or on
\* its -wal or -shm file.
RelevantEvent(ev) ==
    /\ ev.kind \in {"create", "modify"}
    /\ ev.name \in {DbName, DbName \o <<"-", "wal">>, DbName \o <<"-", "shm">>}

\* The loop starts a check only when the window has passed since the latest
\* event that set last_event.
ChecksAfterWindow ==
    [][last_op'.op = "fw_check" =>
          last_event_at # None /\ last_op'.elapsed >= Debounce]_vars

\* A relevant event restarts the window at the time it is received.
RelevantRestarts ==
    [][(last_op'.op = "recv" /\ RelevantEvent(last_op'.event)) =>
          last_event_at' = clock]_vars

\* An event that is not relevant, or a watch error, leaves the window alone.
OthersLeaveWindow ==
    [][(last_op'.op = "recv" /\ ~RelevantEvent(last_op'.event)) =>
          last_event_at' = last_event_at]_vars

\* At most one check is started after the latest restart of the window.
OneCheckPerBurst == [](burst_checks <= 1)

\* C33: the file-watcher thread starts a check only when at least the debounce
\* window has passed since the most recent relevant event (Create or Modify on
\* the store file or its -wal / -shm file); a relevant event restarts the
\* window, any other event or a watch error leaves it alone, and a burst of
\* relevant events followed by quiet starts exactly one check.
C33_DebounceWindow ==
    /\ ChecksAfterWindow
    /\ RelevantRestarts
    /\ OthersLeaveWindow
    /\ OneCheckPerBurst

----------------------------------------------------------------------------
\* Claims about the in-process locks

\* C34: no in-process lock (the mute-state lock, the app-state lock, the
\* queue-state lock) is held while its holder performs blocking I/O (a store
\* query or delete, a config-file write): when a step has performed I/O, no
\* lock is held by the command that performed it.
C34_NoLockAcrossIO ==
    last_op.op = "io" => \A l \in Locks : held[l] # last_op.by

====
